---- MODULE Spec2Model ----
(***************************************************************************)
(* Pok-Deng round engine (src/main.py): one process-wide state triple      *)
(* (player, dealer, deck) and two request handlers, play_round and         *)
(* new_game.  Neither handler contains an await, so each runs to           *)
(* completion on the event loop and is modelled as one atomic action.      *)
(***************************************************************************)
EXTENDS Integers, Sequences, FiniteSets, TLC

\* ------------------------------------------------------------------ bounds
\* Number of outcomes of the random source that random.shuffle may take.
NumShuffles == 3
\* Exploration cap on the chip balance (Python ints are unbounded).
MaxChips == 200
\* Bets offered by the client: two non-positive ones and two positive ones.
Bets == {-3, 0, 50, 100}

\* ------------------------------------------------------ program constants
InitialChips == 100
CardsPerRound == 4

\* --------------------------------------------------------------- data model
Suits == <<"Hearts", "Diamonds", "Clubs", "Spades">>

Ranks == <<[rank |-> "2", value |-> 2], [rank |-> "3", value |-> 3],
           [rank |-> "4", value |-> 4], [rank |-> "5", value |-> 5],
           [rank |-> "6", value |-> 6], [rank |-> "7", value |-> 7],
           [rank |-> "8", value |-> 8], [rank |-> "9", value |-> 9],
           [rank |-> "10", value |-> 0], [rank |-> "Jack", value |-> 0],
           [rank |-> "Queen", value |-> 0], [rank |-> "King", value |-> 0],
           [rank |-> "Ace", value |-> 1]>>

Card(s, r, v) == [suit |-> s, rank |-> r, value |-> v]

Player == [hand |-> <<>>, score |-> 0, chips |-> InitialChips]

create_deck_rank_major ==
    [i \in 1..(Len(Suits) * Len(Ranks)) |->
        LET s == Suits[((i - 1) % Len(Suits)) + 1]
            r == Ranks[((i - 1) \div Len(Suits)) + 1]
        IN  Card(s, r.rank, r.value)]

\* [Card(s, r, v) for s in suits for r, v in ranks.items()]
create_deck ==
    [i \in 1..(Len(Suits) * Len(Ranks)) |->
        LET s == Suits[((i - 1) \div Len(Ranks)) + 1]
            r == Ranks[((i - 1) % Len(Ranks)) + 1]
        IN  Card(s, r.rank, r.value)]

RECURSIVE SumValues(_)
SumValues(hand) ==
    IF hand = <<>> THEN 0 ELSE Head(hand).value + SumValues(Tail(hand))

calculate_score_no_mod(hand) == SumValues(hand)

calculate_score(hand) == SumValues(hand) % 10

\* ------------------------------------------------------------------ shuffle
\* random.shuffle permutes the list in place.  The random source is an input:
\* outcome r rotates the list by (r - 1) \div 2 places and, for odd r,
\* reverses it.  Every outcome is a permutation of the list.
Reverse(d) == [i \in 1..Len(d) |-> d[Len(d) + 1 - i]]

Rotate(d, k) ==
    IF Len(d) = 0 THEN d
    ELSE [i \in 1..Len(d) |-> d[((i - 1 + k) % Len(d)) + 1]]

RandomSource == 1..NumShuffles

shuffle(d, r) ==
    LET rot == Rotate(d, (r - 1) \div 2)
    IN  IF r % 2 = 1 THEN Reverse(rot) ELSE rot

\* ------------------------------------------------------------------ dealing
PopFront(d) == [card |-> d[1], rest |-> SubSeq(d, 2, Len(d))]

PopPeek(d) == [card |-> d[Len(d)], rest |-> d]

\* list.pop(): removes and returns the last element.
Pop(d) == [card |-> d[Len(d)], rest |-> SubSeq(d, 1, Len(d) - 1)]

\* [deck.pop(), deck.pop()]: the list is built only if both pops succeed; a
\* pop on an empty list raises IndexError after the earlier pops took effect.
PopTwo(d) ==
    IF Len(d) = 0 THEN [raised |-> TRUE, cards |-> <<>>, rest |-> d]
    ELSE LET a == Pop(d)
         IN  IF Len(a.rest) = 0
             THEN [raised |-> TRUE, cards |-> <<>>, rest |-> a.rest]
             ELSE LET b == Pop(a.rest)
                  IN  [raised |-> FALSE, cards |-> <<a.card, b.card>>,
                       rest |-> b.rest]

\* ------------------------------------------------------- round resolution
BetErrorZeroAllowed(bet, chips) ==
    IF bet < 0 THEN "Bet must be a positive number."
    ELSE IF chips < bet THEN "Not enough chips to place that bet."
    ELSE ""

BetErrorNoChipsCheck(bet, chips) ==
    IF bet <= 0 THEN "Bet must be a positive number." ELSE ""

BetError(bet, chips) ==
    IF bet <= 0 THEN "Bet must be a positive number."
    ELSE IF chips < bet THEN "Not enough chips to place that bet."
    ELSE ""

NeedsNewDeckAtFour(d) == Len(d) <= CardsPerRound

NeedsNewDeckNever(d) == Len(d) < 0

NeedsNewDeck(d) == Len(d) < CardsPerRound

Result(ps, ds) ==
    IF ps > ds THEN "You win!"
    ELSE IF ps < ds THEN "You lose!"
    ELSE "It's a tie!"

ChipsAfterTieLoses(chips, bet, ps, ds) ==
    IF ps > ds THEN chips + bet ELSE chips - bet

ChipsAfterSwapped(chips, bet, ps, ds) ==
    IF ps > ds THEN chips - bet
    ELSE IF ps < ds THEN chips + bet
    ELSE chips

ChipsAfter(chips, bet, ps, ds) ==
    IF ps > ds THEN chips + bet
    ELSE IF ps < ds THEN chips - bet
    ELSE chips

GameOverBelowZero(chips) == chips < 0

GameOver(chips) == chips <= 0

\* -------------------------------------------------------------------- state
VARIABLES player, dealer, deck, request, response, game_over_signaled, loop

vars == <<player, dealer, deck, request, response, game_over_signaled, loop>>

\* The event loop: the requests in flight, each with the statement of
\* play_round it executes next, and the task that currently holds the loop.
Tasks == 1..2

NoTask ==
    [pc |-> "idle", bet |-> 0, r |-> 1, status |-> "none", result |-> "",
     player_hand |-> <<>>, dealer_hand |-> <<>>, player_score |-> 0,
     dealer_score |-> 0, player_chips |-> 0, game_over |-> FALSE]

Globals == [player |-> player, dealer |-> dealer, deck |-> deck]

IdleLoop ==
    [running |-> 0, origin |-> [player |-> Player, dealer |-> Player,
                                deck |-> create_deck],
     task |-> [t \in Tasks |-> NoTask]]

NoResponse ==
    [status |-> "none", error |-> "", player_hand |-> <<>>,
     dealer_hand |-> <<>>, player_score |-> 0, dealer_score |-> 0,
     result |-> "", player_chips |-> 0, game_over |-> FALSE, message |-> ""]

NoRequest ==
    [op |-> "start", bet |-> 0, chips_before |-> 0, deck_len_before |-> 0,
     shuffled |-> <<>>, deck_rounds |-> 0]

Init ==
    /\ player = Player
    /\ dealer = Player
    /\ deck = create_deck
    /\ request = NoRequest
    /\ response = NoResponse
    /\ game_over_signaled = FALSE
    /\ loop = IdleLoop

\* deck_rounds counts the accepted rounds dealt from the deck constructed last.
PlayRequest(bet, sh, rounds) ==
    [op |-> "play", bet |-> bet, chips_before |-> player.chips,
     deck_len_before |-> Len(deck), shuffled |-> sh, deck_rounds |-> rounds]

\* GET /play?bet=...
play_round ==
    /\ UNCHANGED loop
    /\ \E bet \in Bets, r \in RandomSource :
        LET err == BetError(bet, player.chips) IN
        IF err # ""
        THEN /\ request' = PlayRequest(bet, <<>>, request.deck_rounds)
             /\ response' = [NoResponse EXCEPT !.status = "error", !.error = err]
             /\ UNCHANGED <<player, dealer, deck, game_over_signaled>>
        ELSE
        LET d0 == IF NeedsNewDeck(deck) THEN create_deck ELSE deck
            sh == shuffle(d0, r)
            p2 == PopTwo(sh)
            d2 == PopTwo(p2.rest)
        IN  /\ player.chips + bet <= MaxChips
            /\ request' = PlayRequest(bet, sh,
                    IF NeedsNewDeck(deck) THEN 1 ELSE request.deck_rounds + 1)
            /\ IF p2.raised
               THEN /\ deck' = p2.rest
                    /\ UNCHANGED <<player, dealer, game_over_signaled>>
                    /\ response' = [NoResponse EXCEPT !.status = "raised"]
               ELSE IF d2.raised
               THEN /\ deck' = d2.rest
                    /\ player' = [player EXCEPT !.hand = p2.cards]
                    /\ UNCHANGED <<dealer, game_over_signaled>>
                    /\ response' = [NoResponse EXCEPT !.status = "raised"]
               ELSE
               LET ps == calculate_score(p2.cards)
                   ds == calculate_score(d2.cards)
                   chips == ChipsAfter(player.chips, bet, ps, ds)
               IN  /\ deck' = d2.rest
                   /\ player' = [hand |-> p2.cards, score |-> ps, chips |-> chips]
                   /\ dealer' = [dealer EXCEPT !.hand = d2.cards, !.score = ds]
                   /\ game_over_signaled' = GameOver(chips)
                   /\ response' =
                        [NoResponse EXCEPT
                            !.status = "ok",
                            !.player_hand = p2.cards,
                            !.dealer_hand = d2.cards,
                            !.player_score = ps,
                            !.dealer_score = ds,
                            !.result = Result(ps, ds),
                            !.player_chips = chips,
                            !.game_over = GameOver(chips)]

new_game_keeps_deck ==
    /\ player' = Player
    /\ dealer' = Player
    /\ deck' = deck
    /\ UNCHANGED loop
    /\ game_over_signaled' = FALSE
    /\ request' = [NoRequest EXCEPT !.op = "new_game",
                                    !.chips_before = player.chips,
                                    !.deck_len_before = Len(deck)]
    /\ response' = [NoResponse EXCEPT !.status = "reset",
                                      !.message = "New game started.",
                                      !.player_chips = Player.chips]

\* POST /new_game
new_game ==
    /\ player' = Player
    /\ dealer' = Player
    /\ deck' = create_deck
    /\ UNCHANGED loop
    /\ game_over_signaled' = FALSE
    /\ request' = [NoRequest EXCEPT !.op = "new_game",
                                    !.chips_before = player.chips,
                                    !.deck_len_before = Len(deck)]
    /\ response' = [NoResponse EXCEPT !.status = "reset",
                                      !.message = "New game started.",
                                      !.player_chips = Player.chips]

Next == play_round \/ new_game

Spec == Init /\ [][Next]_vars

\* ------------------------------------------------- simultaneous requests
\* play_round is an `async def` whose body contains no await: once the event
\* loop starts a request it cannot switch to another one before the return.
SuspendsAfterValidation(pc) == pc = "reshuffle"

Suspends(pc) == FALSE

\* One statement of play_round, executed by task t on the globals g.
HandlerStep(g, t) ==
    CASE t.pc = "validate" ->
            IF BetError(t.bet, g.player.chips) # ""
            THEN [g |-> g, t |-> [t EXCEPT !.pc = "done", !.status = "error"]]
            ELSE [g |-> g, t |-> [t EXCEPT !.pc = "reshuffle"]]
      [] t.pc = "reshuffle" ->
            [g |-> [g EXCEPT !.deck =
                        shuffle(IF NeedsNewDeck(g.deck) THEN create_deck
                                ELSE g.deck, t.r)],
             t |-> [t EXCEPT !.pc = "deal_player"]]
      [] t.pc = "deal_player" ->
            LET p2 == PopTwo(g.deck) IN
            IF p2.raised
            THEN [g |-> [g EXCEPT !.deck = p2.rest],
                  t |-> [t EXCEPT !.pc = "done", !.status = "raised"]]
            ELSE [g |-> [g EXCEPT !.deck = p2.rest, !.player.hand = p2.cards],
                  t |-> [t EXCEPT !.pc = "deal_dealer"]]
      [] t.pc = "deal_dealer" ->
            LET d2 == PopTwo(g.deck) IN
            IF d2.raised
            THEN [g |-> [g EXCEPT !.deck = d2.rest],
                  t |-> [t EXCEPT !.pc = "done", !.status = "raised"]]
            ELSE [g |-> [g EXCEPT !.deck = d2.rest, !.dealer.hand = d2.cards],
                  t |-> [t EXCEPT !.pc = "score"]]
      [] t.pc = "score" ->
            [g |-> [g EXCEPT !.player.score = calculate_score(g.player.hand),
                             !.dealer.score = calculate_score(g.dealer.hand)],
             t |-> [t EXCEPT !.pc = "settle"]]
      [] t.pc = "settle" ->
            [g |-> [g EXCEPT !.player.chips =
                        ChipsAfter(g.player.chips, t.bet, g.player.score,
                                   g.dealer.score)],
             t |-> [t EXCEPT !.pc = "respond",
                             !.result = Result(g.player.score, g.dealer.score)]]
      [] t.pc = "respond" ->
            [g |-> g,
             t |-> [t EXCEPT !.pc = "done",
                             !.status = "ok",
                             !.player_hand = g.player.hand,
                             !.dealer_hand = g.dealer.hand,
                             !.player_score = g.player.score,
                             !.dealer_score = g.dealer.score,
                             !.player_chips = g.player.chips,
                             !.game_over = GameOver(g.player.chips)]]
      [] OTHER -> [g |-> g, t |-> t]

\* The whole handler, run without interruption.
RECURSIVE RunHandler(_, _)
RunHandler(g, t) ==
    IF t.pc \in {"idle", "done"} THEN [g |-> g, t |-> t]
    ELSE LET n == HandlerStep(g, t) IN RunHandler(n.g, n.t)

\* Two GET /play requests arrive together at a freshly started process.
Submit ==
    /\ \A t \in Tasks : loop.task[t].pc = "idle"
    /\ request.op = "start"
    /\ \E b \in [Tasks -> Bets], r \in [Tasks -> RandomSource] :
          loop' = [loop EXCEPT
                      !.origin = Globals,
                      !.task = [t \in Tasks |->
                                  [NoTask EXCEPT !.pc = "validate",
                                                 !.bet = b[t], !.r = r[t]]]]
    /\ UNCHANGED <<player, dealer, deck, request, response,
                   game_over_signaled>>

\* The event loop runs the next statement of task t: a task that has started
\* keeps the loop until it returns or reaches a suspension point.
TaskStep(t) ==
    /\ loop.task[t].pc \notin {"idle", "done"}
    /\ loop.running \in {0, t}
    /\ LET n == HandlerStep(Globals, loop.task[t]) IN
          /\ player' = n.g.player
          /\ dealer' = n.g.dealer
          /\ deck' = n.g.deck
          /\ loop' = [loop EXCEPT
                         !.task[t] = n.t,
                         !.running = IF n.t.pc = "done" \/ Suspends(n.t.pc)
                                     THEN 0 ELSE t]
    /\ UNCHANGED <<request, response, game_over_signaled>>

NextConc == Submit \/ \E t \in Tasks : TaskStep(t)

SpecConc == Init /\ [][NextConc]_vars

\* ================================================================== claims
Accepted == request.op = "play" /\ response.status = "ok"

\* C1: an accepted Play is decided by the numeric comparison of the two
\* scores only: higher player score is a win and adds exactly the bet, lower
\* is a loss and subtracts exactly the bet, equal is a tie and leaves chips.
C1_OutcomeByComparison ==
    Accepted =>
        /\ request.bet > 0 /\ request.bet <= request.chips_before
        /\ player.score > dealer.score =>
              /\ response.result = "You win!"
              /\ player.chips = request.chips_before + request.bet
        /\ player.score < dealer.score =>
              /\ response.result = "You lose!"
              /\ player.chips = request.chips_before - request.bet
        /\ player.score = dealer.score =>
              /\ response.result = "It's a tie!"
              /\ player.chips = request.chips_before

C1_Witness ==
    /\ Accepted
    /\ player.score = dealer.score
    /\ player.hand[1].value + player.hand[2].value
          # dealer.hand[1].value + dealer.hand[2].value
    /\ player.chips = request.chips_before

\* C2: a Play whose bet is <= 0 or exceeds the player's chips returns an
\* error and leaves deck, player and dealer exactly as they were.
C2_RejectedPlayChangesNothing ==
    [][(request'.op = "play"
          /\ (request'.bet <= 0 \/ request'.bet > player.chips))
        => (response'.status = "error"
              /\ UNCHANGED <<player, dealer, deck>>)]_vars

C2_Witness ==
    /\ request.op = "play"
    /\ response.status = "error"
    /\ request.bet > player.chips
    /\ player.chips > 0
    /\ Len(player.hand) = 2
    /\ Len(deck) < Len(create_deck)

\* C3: for an accepted Play the game-over flag is true exactly when the
\* chips after the round's adjustment are <= 0.
C3_GameOverIffNoChips ==
    Accepted =>
        /\ response.player_chips = player.chips
        /\ response.game_over <=> (player.chips <= 0)

C3_Witness == Accepted /\ response.game_over /\ player.chips <= 0

\* C4: Reset yields chips 100, empty hands, scores 0 and the full 52-card
\* deck in construction order, reports 100, and that state is the state at
\* process start (so a second Reset changes nothing).
C4_ResetRestoresStart ==
    request.op = "new_game" =>
        /\ player = [hand |-> <<>>, score |-> 0, chips |-> 100]
        /\ dealer.hand = <<>> /\ dealer.score = 0
        /\ Len(deck) = 52
        /\ \A i \in 1..Len(deck) :
              /\ deck[i].suit = Suits[((i - 1) \div 13) + 1]
              /\ deck[i].rank = Ranks[((i - 1) % 13) + 1].rank
              /\ deck[i].value = Ranks[((i - 1) % 13) + 1].value
        /\ response.status = "reset"
        /\ response.player_chips = 100
        /\ game_over_signaled = FALSE

C4_Witness ==
    /\ request.op = "new_game"
    /\ request.chips_before # 100
    /\ request.deck_len_before < 52
    /\ player.chips = 100
    /\ Len(deck) = 52

\* C5: once a Play has returned game-over = true, every further Play is
\* rejected with no state change until a Reset is performed.
C5_NoPlayAfterGameOver ==
    [][(game_over_signaled /\ request'.op = "play")
        => (response'.status = "error"
              /\ UNCHANGED <<player, dealer, deck>>)]_vars

C5_Witness ==
    /\ game_over_signaled
    /\ request.op = "play"
    /\ request.bet > 0
    /\ response.status = "error"

\* C6: an accepted Play that starts with fewer than 4 cards deals from a
\* freshly constructed 52-card deck and leaves at least 48 cards; one that
\* starts with 4 or more cards deals from the cards it found.
C6_ReconstructBelowFour ==
    [][(request'.op = "play" /\ response'.status = "ok") =>
        IF Len(deck) < 4
        THEN /\ Len(request'.shuffled) = 52
             /\ Cardinality({request'.shuffled[i] :
                               i \in 1..Len(request'.shuffled)}) = 52
             /\ Len(deck') >= 48
        ELSE /\ Len(request'.shuffled) = Len(deck)
             /\ {request'.shuffled[i] : i \in 1..Len(request'.shuffled)}
                   = {deck[i] : i \in 1..Len(deck)}]_vars

C6_Witness ==
    /\ Accepted
    /\ request.deck_len_before < 4
    /\ Len(deck) = 48

\* C7: Play returns an error only for the two bet-validation failures; with
\* 0 < bet <= chips it is accepted at every deck size and deals all four
\* cards, and no card removal ever fails.
C7_OnlyBetErrors ==
    request.op = "play" =>
        /\ response.status = "error"
              <=> (request.bet <= 0 \/ request.bet > request.chips_before)
        /\ response.status # "error" =>
              /\ response.status = "ok"
              /\ Len(response.player_hand) = 2
              /\ Len(response.dealer_hand) = 2
              /\ Len(request.shuffled) - Len(deck) = 4

C7_Witness ==
    /\ request.op = "play"
    /\ request.deck_len_before = 0
    /\ request.bet > 0
    /\ response.status = "ok"
    /\ Len(response.player_hand) = 2
    /\ Len(response.dealer_hand) = 2

\* C8: in every reachable state each party's score is the sum of the values
\* of the cards in its own hand modulo 10, and lies in 0..9.
C8_ScoreIsSumMod10 ==
    /\ Len(player.hand) \in {0, 2}
    /\ Len(dealer.hand) \in {0, 2}
    /\ LET total(h) == IF Len(h) = 0 THEN 0 ELSE h[1].value + h[2].value
       IN  /\ player.score = total(player.hand) % 10
           /\ dealer.score = total(dealer.hand) % 10
    /\ player.score \in 0..9
    /\ dealer.score \in 0..9

C8_Witness ==
    /\ Accepted
    /\ player.hand[1].value + player.hand[2].value >= 10
    /\ dealer.hand[1].value + dealer.hand[2].value < 10
    /\ player.score # dealer.score

\* C9: an accepted Play removes the last four cards of the shuffled deck one
\* after another: the first two are the player's hand, the next two the
\* dealer's, and the rest of the shuffled deck stays in order.
C9_DealFromOneEnd ==
    Accepted =>
        LET sh == request.shuffled
            n == Len(sh)
        IN  /\ n >= 4
            /\ player.hand = <<sh[n], sh[n - 1]>>
            /\ dealer.hand = <<sh[n - 2], sh[n - 3]>>
            /\ deck = SubSeq(sh, 1, n - 4)
            /\ response.player_hand = player.hand
            /\ response.dealer_hand = dealer.hand

C9_Witness ==
    /\ Accepted
    /\ Len(deck) > 0
    /\ request.shuffled[1] # create_deck[1]
    /\ player.hand[1] = request.shuffled[Len(request.shuffled)]
    /\ dealer.hand[2] = request.shuffled[Len(deck) + 1]

\* C10: the deck never holds a duplicate or a non-canonical card; an accepted
\* Play that does not reconstruct the deck shrinks it by exactly 4; after an
\* accepted Play the four dealt cards are pairwise distinct and not in the
\* deck.
C10_DeckIntegrity ==
    /\ \A i, j \in 1..Len(deck) :
          i # j => (deck[i].suit # deck[j].suit \/ deck[i].rank # deck[j].rank)
    /\ \A i \in 1..Len(deck) :
          \E s \in 1..4, r \in 1..13 :
              deck[i] = [suit |-> Suits[s], rank |-> Ranks[r].rank,
                         value |-> Ranks[r].value]
    /\ Accepted =>
          LET dealt == player.hand \o dealer.hand
          IN  /\ request.deck_len_before >= 4
                    => Len(deck) = request.deck_len_before - 4
              /\ Len(dealt) = 4
              /\ \A i, j \in 1..Len(dealt) : i # j => dealt[i] # dealt[j]
              /\ \A i \in 1..Len(dealt), k \in 1..Len(deck) :
                    dealt[i] # deck[k]

C10_Witness ==
    /\ Accepted
    /\ request.deck_len_before >= 4
    /\ request.deck_len_before < 52
    /\ Len(deck) = request.deck_len_before - 4
    /\ Len(deck) > 0

\* C11: create_deck returns exactly 52 cards, one per suit and rank, in
\* suit-major order with ranks 2..10, Jack, Queen, King, Ace inside each
\* suit, values 2-9 at face value, 10/Jack/Queen/King 0 and Ace 1; a deck
\* that has just been constructed is in exactly that order.
C11_CreateDeckCanonical ==
    LET suitOrder == <<"Hearts", "Diamonds", "Clubs", "Spades">>
        rankOrder == <<"2", "3", "4", "5", "6", "7", "8", "9", "10",
                       "Jack", "Queen", "King", "Ace">>
        valueOf == <<2, 3, 4, 5, 6, 7, 8, 9, 0, 0, 0, 0, 1>>
        built == create_deck
    IN  /\ Len(built) = 52
        /\ \A i \in 1..4, j \in 1..13 :
              built[13 * (i - 1) + j] =
                  [suit |-> suitOrder[i], rank |-> rankOrder[j],
                   value |-> valueOf[j]]
        /\ Cardinality({<<built[k].suit, built[k].rank>> :
                           k \in 1..Len(built)}) = 52
        /\ request.op \in {"start", "new_game"} => deck = built

C11_Witness ==
    /\ request.op = "new_game"
    /\ request.deck_len_before = 0
    /\ deck[1] = [suit |-> "Hearts", rank |-> "2", value |-> 2]
    /\ deck[13] = [suit |-> "Hearts", rank |-> "Ace", value |-> 1]
    /\ deck[14] = [suit |-> "Diamonds", rank |-> "2", value |-> 2]
    /\ deck[52] = [suit |-> "Spades", rank |-> "Ace", value |-> 1]

\* C13: with requests handled one at a time the player's chips are never
\* negative, so an accepted Play flags game-over exactly when the chips are 0.
C13_ChipsNeverNegative ==
    /\ player.chips >= 0
    /\ Accepted => (response.game_over <=> player.chips = 0)

C13_Witness ==
    /\ Accepted
    /\ response.game_over
    /\ player.chips = 0
    /\ request.bet = request.chips_before
    /\ request.deck_len_before = 52

\* C15: game-over is flagged only by a losing round whose bet was the whole
\* chip balance before the round; a win or a tie never flags it.
C15_GameOverOnlyByAllInLoss ==
    (Accepted /\ response.game_over) =>
        /\ response.result = "You lose!"
        /\ player.score < dealer.score
        /\ request.bet = request.chips_before

C15_Witness ==
    /\ Accepted
    /\ response.game_over
    /\ response.result = "You lose!"
    /\ request.bet = request.chips_before
    /\ request.bet = 50

\* C14: the deck size is always a multiple of 4 between 0 and 52, so an
\* accepted Play reconstructs the deck only when it is empty, and exactly 13
\* accepted rounds are dealt from a constructed deck before the next
\* reconstruction.
C14_ThirteenRoundsPerDeck ==
    /\ [](/\ Len(deck) \in 0..52
          /\ Len(deck) % 4 = 0
          /\ request.deck_rounds \in 0..13
          /\ Len(deck) = 52 - 4 * request.deck_rounds)
    /\ [][(request'.op = "play" /\ response'.status = "ok")
            => IF Len(request'.shuffled) # Len(deck) \/ Len(deck) < 4
               THEN /\ Len(deck) = 0
                    /\ request.deck_rounds = 13
                    /\ request'.deck_rounds = 1
               ELSE /\ request.deck_rounds < 13
                    /\ request'.deck_rounds = request.deck_rounds + 1]_vars

C14_Witness ==
    /\ Accepted
    /\ request.deck_len_before = 0
    /\ request.deck_rounds = 1
    /\ Len(request.shuffled) = 52
    /\ Len(deck) = 48

\* C12 (as amended): two simultaneous Play requests never interleave inside
\* play_round; at most one request is part-way through the handler, and when
\* both have returned, the state and both responses are those of running the
\* two requests one after the other in one of the two orders.
C12_RequestsSerialized ==
    /\ \A a, b \in Tasks :
          (a # b /\ loop.task[a].pc \notin {"idle", "validate", "done"})
              => loop.task[b].pc \in {"idle", "validate", "done"}
    /\ (\A t \in Tasks : loop.task[t].pc = "done") =>
          \E a, b \in Tasks :
              /\ a # b
              /\ LET first == RunHandler(loop.origin,
                                 [NoTask EXCEPT !.pc = "validate",
                                                !.bet = loop.task[a].bet,
                                                !.r = loop.task[a].r])
                     second == RunHandler(first.g,
                                 [NoTask EXCEPT !.pc = "validate",
                                                !.bet = loop.task[b].bet,
                                                !.r = loop.task[b].r])
                 IN  /\ Globals = second.g
                     /\ loop.task[a] = first.t
                     /\ loop.task[b] = second.t

C12_Witness ==
    /\ \A t \in Tasks : loop.task[t].pc = "done" /\ loop.task[t].bet = 100
    /\ \E a, b \in Tasks :
          /\ loop.task[a].status = "ok"
          /\ loop.task[a].game_over
          /\ loop.task[b].status = "error"
    /\ player.chips = 0

\* C12 (as claimed): two simultaneous Play requests corrupt the shared
\* state: once both have returned, the chips have gone below zero, a card
\* sits in two places, or the outcome matches no sequential ordering.
C12_RaceCorrupts ==
    (\A t \in Tasks : loop.task[t].pc = "done") =>
        \/ player.chips < 0
        \/ \E i \in 1..Len(deck) : \E h \in {player.hand, dealer.hand} :
              \E k \in 1..Len(h) : h[k] = deck[i]
        \/ ~ \E a, b \in Tasks :
              /\ a # b
              /\ RunHandler(RunHandler(loop.origin,
                                [NoTask EXCEPT !.pc = "validate",
                                               !.bet = loop.task[a].bet,
                                               !.r = loop.task[a].r]).g,
                            [NoTask EXCEPT !.pc = "validate",
                                           !.bet = loop.task[b].bet,
                                           !.r = loop.task[b].r]).g = Globals

====
